---- MODULE Spec2Model ----
(***************************************************************************)
(* Android App Forge: the streaming file-protocol parser of                *)
(* handleModification, the change reconciliation of analyzeChanges and the *)
(* project state transitions of App (generate, modify, import, select,     *)
(* delete), with the persisted project collection.                         *)
(*                                                                         *)
(* Text is modelled by TLA+ strings; indices are 0-based as in JavaScript. *)
(***************************************************************************)
EXTENDS Integers, Sequences, FiniteSets, TLC

(***************************************************************************)
(* Bounds of the model.                                                    *)
(***************************************************************************)
MaxFragments == 3

\* Modifications, generations and imports started in one run.
MaxOps == 1

\* Longest code streamed for one generated file, in fragments.
MaxCodeLen == 1

(***************************************************************************)
(* String primitives (String.prototype.substring / indexOf / trim).        *)
(***************************************************************************)
Null == "<null>"

SetMin(S) == CHOOSE x \in S : \A y \in S : x <= y

SetMax(S) == CHOOSE x \in S : \A y \in S : y <= x

\* s.substring(a, b) with 0 <= a <= b <= s.length
Substring(s, a, b) == SubSeq(s, a + 1, b)

\* s.substring(a)
SubstringFrom(s, a) == SubSeq(s, a + 1, Len(s))

\* s.indexOf(pat, from): first index >= from at which pat occurs, or -1
IndexOf(s, pat, from) ==
  LET hits == {i \in from..(Len(s) - Len(pat)) : Substring(s, i, i + Len(pat)) = pat}
  IN  IF hits = {} THEN -1 ELSE SetMin(hits)

WhiteSpace == {" ", "\n", "\t", "\r"}

\* s.trim()
Trim(s) ==
  LET keep == {i \in 1..Len(s) : SubSeq(s, i, i) \notin WhiteSpace}
  IN  IF keep = {} THEN "" ELSE SubSeq(s, SetMin(keep), SetMax(keep))

(***************************************************************************)
(* Record<string, string> objects: functions from a set of keys.           *)
(***************************************************************************)
EmptyMap == [k \in {} |-> ""]

\* obj[key] = value
PutDropped(m, k, v) == m

Put(m, k, v) == [x \in (DOMAIN m) \cup {k} |-> IF x = k THEN v ELSE m[x]]

\* { ...a, ...b }
Merge(a, b) == [x \in (DOMAIN a) \cup (DOMAIN b) |-> IF x \in DOMAIN b THEN b[x] ELSE a[x]]

(***************************************************************************)
(* The stream protocol of handleModification.                              *)
(***************************************************************************)
startDelimiter == "--FILE_START:"

endDelimiter == "--"

fileEndDelimiter == "--FILE_END--"

\* buffer += chunk.text
AppendChunkDropped(buffer, chunk) == chunk

AppendChunk(buffer, chunk) == buffer \o chunk

\* The `while (true)` loop run after each fragment.  st.buffer is the
\* buffer, st.updatedFiles the record of completed files, st.completions the
\* sequence of `updatedFiles[path] = code` assignments executed so far and
\* st.applied the sequence of setActiveProject updaters queued by this run.
RECURSIVE ParseLoop(_)
ParseLoop(st) ==
  LET startIndex == IndexOf(st.buffer, startDelimiter, 0) IN
  IF startIndex = -1 THEN st ELSE
  LET endIndex == IndexOf(st.buffer, endDelimiter, startIndex + Len(startDelimiter)) IN
  IF endIndex = -1 THEN st ELSE
  LET path == Trim(Substring(st.buffer, startIndex + Len(startDelimiter), endIndex))
      contentStartIndex == endIndex + Len(endDelimiter)
      fileEndIndex == IndexOf(st.buffer, fileEndDelimiter, contentStartIndex)
  IN  IF fileEndIndex # -1
      THEN LET code == Trim(Substring(st.buffer, contentStartIndex, fileEndIndex))
           IN  ParseLoop([buffer |-> SubstringFrom(st.buffer, fileEndIndex + Len(fileEndDelimiter)),
                          updatedFiles |-> Put(st.updatedFiles, path, code),
                          completions |-> Append(st.completions, [path |-> path, code |-> code]),
                          applied |-> Append(st.applied, [path |-> path, content |-> code, partial |-> FALSE])])
      ELSE LET partialCode == SubstringFrom(st.buffer, contentStartIndex)
           IN  [st EXCEPT !.applied = Append(@, [path |-> path, content |-> partialCode, partial |-> TRUE])]

\* One iteration of `for await (const chunk of stream)`.
HandleChunkFromEmptyBuffer(st, chunk) ==
  ParseLoop([buffer |-> chunk,
             updatedFiles |-> st.updatedFiles,
             completions |-> st.completions,
             applied |-> << >>])

HandleChunk(st, chunk) ==
  ParseLoop([buffer |-> AppendChunk(st.buffer, chunk),
             updatedFiles |-> st.updatedFiles,
             completions |-> st.completions,
             applied |-> << >>])

\* `let buffer = ''; const updatedFiles = {}`
ParserStart == [buffer |-> "", updatedFiles |-> EmptyMap, completions |-> << >>, applied |-> << >>]

RECURSIVE FeedAll(_, _)
FeedAll(st, frags) ==
  IF frags = << >> THEN st ELSE FeedAll(HandleChunk(st, Head(frags)), Tail(frags))

(***************************************************************************)
(* Reviews (StructuredReview) and projects.                                *)
(***************************************************************************)
emptyReview == [crashBugs |-> << >>, uiUxImprovements |-> << >>, otherSuggestions |-> << >>]

\* Values a stored or parsed `review: any` can have besides a record.
Undefined == [type |-> "undefined"]

StringValue(s) == [type |-> "string", value |-> s]

IsArray(v) == DOMAIN v = 1..Len(v)

ensureStructuredReview(review) ==
  IF review = Undefined THEN emptyReview
  ELSE IF "type" \in DOMAIN review /\ review.type = "string"
    THEN IF review.value = "" THEN emptyReview
         ELSE [emptyReview EXCEPT !.otherSuggestions = <<[id |-> "legacy-review", description |-> review.value]>>]
  ELSE IF /\ {"crashBugs", "uiUxImprovements", "otherSuggestions"} \subseteq DOMAIN review
          /\ IsArray(review.crashBugs) /\ IsArray(review.uiUxImprovements) /\ IsArray(review.otherSuggestions)
    THEN review
  ELSE emptyReview

ReviewA == [crashBugs |-> <<[id |-> "npe", description |-> "null view"]>>,
            uiUxImprovements |-> << >>,
            otherSuggestions |-> <<[id |-> "names", description |-> "rename"]>>]

ReviewB == [crashBugs |-> << >>,
            uiUxImprovements |-> <<[id |-> "pad", description |-> "padding"]>>,
            otherSuggestions |-> << >>]

\* A JSON object without two of the three categories.
ReviewWrongShape == [crashBugs |-> <<[id |-> "npe", description |-> "null view"]>>]

\* The three categories are arrays.
IsStructured(review) ==
  /\ {"crashBugs", "uiUxImprovements", "otherSuggestions"} \subseteq DOMAIN review
  /\ IsArray(review.crashBugs) /\ IsArray(review.uiUxImprovements) /\ IsArray(review.otherSuggestions)

\* Reviews the model client returns from reviewCode / analyzeChanges /
\* analyzeImportedProject: JSON.parse(response.text), cast without a test.
ModelReviews == {ReviewB, ReviewWrongShape}

NoProject == [none |-> TRUE]

FilePlan(path) == [path |-> path, description |-> "d"]

PlanA == [appName |-> "A", fileStructure |-> <<FilePlan("a"), FilePlan("b")>>]

PlanB == [appName |-> "B", fileStructure |-> <<FilePlan("a")>>]

\* The collection found in localStorage when the app is mounted.
StoredA == [id |-> 1, prompt |-> "app a", plan |-> PlanA,
            files |-> [k \in {"a", "b"} |-> "v1"], review |-> ReviewA, createdAt |-> 1]

StoredB == [id |-> 2, prompt |-> "app b", plan |-> PlanB,
            files |-> [k \in {"a"} |-> "w1"], review |-> StringValue("old"), createdAt |-> 2]

InitialCollections == { <<StoredA, StoredB>> }

Ids(ps) == {ps[i].id : i \in 1..Len(ps)}

\* Array.prototype.filter / map over a project list
RECURSIVE FilterOutId(_, _)
FilterOutId(ps, id) ==
  IF ps = << >> THEN << >>
  ELSE IF Head(ps).id # id THEN <<Head(ps)>> \o FilterOutId(Tail(ps), id)
  ELSE FilterOutId(Tail(ps), id)

ReplaceById(ps, q) == [i \in 1..Len(ps) |-> IF ps[i].id = q.id THEN q ELSE ps[i]]

(***************************************************************************)
(* The state.                                                              *)
(*   localStorage   the persisted collection 'android-app-forge-projects'  *)
(*   projects, activeProject, view, isLoading, isModifying, isGenerating,  *)
(*   error          the useState cells of App                              *)
(*   now            Date.now()                                             *)
(*   partial        paths of activeProject.files last written by an        *)
(*                  updater carrying content of a file still streaming     *)
(*   ops            handler runs started so far (bounds the run)           *)
(*   mod, gen, imp  the in-flight handleModification, handleGenerateApp    *)
(*                  and handleImportProject calls (locals and position)    *)
(*   p*             the parser driven on its own (SpecParse)               *)
(*   r*             analyzeChanges applied on its own (SpecReconcile)      *)
(*   t*             buildFileTree and the FileExplorer listing applied on  *)
(*                  their own (SpecTree)                                   *)
(*   e*             ensureStructuredReview applied on its own (SpecReview) *)
(*   x*             a project exported by createAndDownloadZip and the     *)
(*                  archive imported again (SpecExport)                    *)
(***************************************************************************)
VARIABLES localStorage, projects, activeProject, view, isLoading, isModifying,
          isGenerating, error, now, partial, ops, mod, gen, imp,
          pStream, pFrags, pRest, pParser,
          rBefore, rAfter, rChanged, rDone,
          tFiles, tTree, tDone,
          eReview, eResult, eDone,
          xProject, xZip, xImported

appVars == <<localStorage, projects, activeProject, view, isLoading, isModifying,
             isGenerating, error, now, partial, ops, mod, gen, imp>>

parseVars == <<pStream, pFrags, pRest, pParser>>

recVars == <<rBefore, rAfter, rChanged, rDone>>

treeVars == <<tFiles, tTree, tDone>>

reviewVars == <<eReview, eResult, eDone>>

exportVars == <<xProject, xZip, xImported>>

vars == <<localStorage, projects, activeProject, view, isLoading, isModifying,
          isGenerating, error, now, partial, ops, mod, gen, imp,
          pStream, pFrags, pRest, pParser,
          rBefore, rAfter, rChanged, rDone,
          tFiles, tTree, tDone,
          eReview, eResult, eDone,
          xProject, xZip, xImported>>

(***************************************************************************)
(* React state helpers.                                                    *)
(***************************************************************************)
\* saveProjects: localStorage.setItem(...) then setProjects(...)
saveProjects(updatedProjects) ==
  /\ localStorage' = updatedProjects
  /\ projects' = updatedProjects

\* setActiveProject(proj => proj ? {...proj, files: {...proj.files, [path]: content}} : null)
\* for each queued updater u, in order
RECURSIVE ApplyUpdaters(_, _)
ApplyUpdaters(proj, us) ==
  IF us = << >> \/ proj = NoProject THEN proj
  ELSE ApplyUpdaters([proj EXCEPT !.files = Put(@, Head(us).path, Head(us).content)], Tail(us))

RECURSIVE MarkPartial(_, _)
MarkPartial(marked, us) ==
  IF us = << >> THEN marked
  ELSE MarkPartial(IF Head(us).partial THEN marked \cup {Head(us).path} ELSE marked \ {Head(us).path},
                   Tail(us))

\* setActiveProject(p => p ? {...p, review: r} : null)
SetReview(proj, r) == IF proj = NoProject THEN proj ELSE [proj EXCEPT !.review = r]

(***************************************************************************)
(* handleModification.                                                     *)
(***************************************************************************)
\* What the model streams back for a modification request, as the fragments
\* the producer delivers.
ModStreams ==
  { <<"--FILE_ST", "ART: a--\nv", "2\n--FILE_END----FILE_START: c--n1--FILE_END--">>,
    <<"--FILE_START: a--\npartial ", "conten">>,
    <<"Sure, ", "done.">>,
    <<" ", "\n">> }

ModIdle ==
  [pc |-> "idle", activeProject |-> NoProject, projects |-> << >>,
   oldFiles |-> EmptyMap, originalReview |-> emptyReview, stream |-> << >>,
   parser |-> ParserStart, newFiles |-> EmptyMap, changed |-> {}]

\* Line 782: the Apply Changes button is disabled (for a non-empty request).
ApplyDisabledIgnoringModifying == isGenerating

ApplyDisabled == isModifying \/ isGenerating

\* Lines 257-291: the click on "Apply Changes" up to `await modifyCodeStream`.
\* The button is rendered in the editor view and disabled while
\* isModifying or isGenerating; a suggestion is selected or a custom request
\* typed, so modificationPrompt is not empty.  Spreading a category that
\* is not an array (lines 260-264) throws before any state is set.
ModStart ==
  /\ view = "editor"
  /\ activeProject # NoProject
  /\ ~ApplyDisabled
  /\ IsStructured(activeProject.review)
  /\ ops < MaxOps
  /\ \E stream \in ModStreams :
       mod' = [pc |-> "streaming",
               activeProject |-> activeProject, projects |-> projects,
               oldFiles |-> activeProject.files,
               originalReview |-> activeProject.review,
               stream |-> stream, parser |-> ParserStart,
               newFiles |-> EmptyMap, changed |-> {}]
  /\ isModifying' = TRUE
  /\ ops' = ops + 1
  /\ error' = Null
  /\ activeProject' = SetReview(activeProject, emptyReview)
  /\ UNCHANGED <<localStorage, projects, view, isLoading, isGenerating, now, partial, gen, imp>>

\* Lines 295-327: one fragment arrives.
ModChunk ==
  /\ mod.pc = "streaming"
  /\ mod.stream # << >>
  /\ LET st == HandleChunk(mod.parser, Head(mod.stream)) IN
       /\ mod' = [mod EXCEPT !.stream = Tail(@), !.parser = st]
       /\ activeProject' = ApplyUpdaters(activeProject, st.applied)
       /\ partial' = IF activeProject = NoProject THEN partial ELSE MarkPartial(partial, st.applied)
  /\ UNCHANGED <<localStorage, projects, view, isLoading, isModifying, isGenerating, error, now, gen, imp>>

\* Lines 350-357: catch and finally.
ModCatchRevertingFiles(proj, m) ==
  IF proj = NoProject THEN proj ELSE [proj EXCEPT !.review = m.originalReview, !.files = m.oldFiles]

ModCatchKeepingReview(proj, m) == proj

ModCatch(proj, m) == SetReview(proj, m.originalReview)

ModFail(message) ==
  /\ mod' = ModIdle
  /\ error' = "Failed to modify code: " \o message
  /\ activeProject' = ModCatch(activeProject, mod)
  /\ isModifying' = FALSE
  /\ UNCHANGED <<localStorage, projects, view, isLoading, isGenerating, now, partial, gen, imp>>

\* modifyCodeStream or the iteration of the stream throws.
ModStreamError ==
  /\ mod.pc = "streaming"
  /\ ModFail("stream failed")

\* analyzeChanges, lines 172-177: the paths whose BEFORE content is put in
\* the prompt.  `newFiles[path] && ...` is false for a missing key and for
\* the empty string.
Truthy(m, k) == k \in DOMAIN m /\ m[k] # ""

analyzeChangesBeforeWithoutComparison(oldFiles, newFiles) ==
  {path \in DOMAIN oldFiles : Truthy(newFiles, path)}

analyzeChangesBeforeOverNewFiles(oldFiles, newFiles) ==
  {path \in DOMAIN newFiles :
     Truthy(newFiles, path) /\ (path \notin DOMAIN oldFiles \/ newFiles[path] # oldFiles[path])}

analyzeChangesBefore(oldFiles, newFiles) ==
  {path \in DOMAIN oldFiles : Truthy(newFiles, path) /\ newFiles[path] # oldFiles[path]}

\* analyzeChanges, lines 173-180: the BEFORE section of the prompt, as the
\* set of its blocks, or the fallback text when no block was written.
NoFilesChangedText == "No files were changed. This was likely an addition of new files."

oldFilesContent(oldFiles, newFiles) ==
  IF analyzeChangesBefore(oldFiles, newFiles) = {}
  THEN {NoFilesChangedText}
  ELSE {"\n\n---\nFile: " \o path \o " (BEFORE)\n---\n" \o oldFiles[path] :
          path \in analyzeChangesBefore(oldFiles, newFiles)}

\* Lines 329-339: the stream is exhausted; either the "no file changes"
\* report or the call of analyzeChanges.
NoChangesTestWithoutTrim(updatedFiles, buffer) == DOMAIN updatedFiles = {} /\ buffer = ""

NoChangesTest(updatedFiles, buffer) == DOMAIN updatedFiles = {} /\ Trim(buffer) = ""

ModStreamEnd ==
  /\ mod.pc = "streaming"
  /\ mod.stream = << >>
  /\ IF NoChangesTest(mod.parser.updatedFiles, mod.parser.buffer)
     THEN /\ mod' = ModIdle
          /\ error' = "The model did not return any file changes. Try rephrasing your request."
          /\ isModifying' = FALSE
          /\ activeProject' = SetReview(activeProject, mod.originalReview)
     ELSE /\ LET newFiles == Merge(mod.oldFiles, mod.parser.updatedFiles) IN
               mod' = [mod EXCEPT !.pc = "analyzing", !.newFiles = newFiles,
                                  !.changed = analyzeChangesBefore(mod.oldFiles, newFiles)]
          /\ UNCHANGED <<error, isModifying, activeProject>>
  /\ UNCHANGED <<localStorage, projects, view, isLoading, isGenerating, now, partial, gen, imp>>

\* Lines 341-348 and the finally: analyzeChanges answered.
ModCommit ==
  /\ mod.pc = "analyzing"
  /\ \E review \in ModelReviews :
       LET updatedProject == [mod.activeProject EXCEPT !.files = mod.newFiles, !.review = review]
           updatedProjects == ReplaceById(mod.projects, updatedProject)
       IN  /\ saveProjects(updatedProjects)
           /\ activeProject' = updatedProject
  /\ partial' = {}
  /\ mod' = ModIdle
  /\ isModifying' = FALSE
  /\ UNCHANGED <<view, isLoading, isGenerating, error, now, gen, imp>>

\* analyzeChanges throws (request failed or the answer is not JSON).
ModAnalyzeError ==
  /\ mod.pc = "analyzing"
  /\ ModFail("analysis failed")

(***************************************************************************)
(* Navigation, selection and deletion (project list).                      *)
(***************************************************************************)
\* "Back to Projects" of the idea form and of the editor
NavBack ==
  /\ view \in {"idea", "editor"}
  /\ view' = "list"
  /\ error' = Null
  /\ UNCHANGED <<localStorage, projects, activeProject, isLoading, isModifying, isGenerating,
                 now, partial, mod, gen, imp>>

\* "+ New App"
NavNew ==
  /\ view = "list"
  /\ view' = "idea"
  /\ UNCHANGED <<localStorage, projects, activeProject, isLoading, isModifying, isGenerating,
                 error, now, partial, mod, gen, imp>>

handleSelectProject ==
  /\ view = "list"
  /\ \E i \in 1..Len(projects) :
       activeProject' = [projects[i] EXCEPT !.review = ensureStructuredReview(@)]
  /\ partial' = {}
  /\ view' = "editor"
  /\ UNCHANGED <<localStorage, projects, isLoading, isModifying, isGenerating, error, now,
                 mod, gen, imp>>

handleDeleteProject ==
  /\ view = "list"
  /\ \E i \in 1..Len(projects) : saveProjects(FilterOutId(projects, projects[i].id))
  /\ UNCHANGED <<activeProject, view, isLoading, isModifying, isGenerating, error, now,
                 partial, mod, gen, imp>>

(***************************************************************************)
(* handleGenerateApp.                                                      *)
(***************************************************************************)
errorMsg == "// Error generating code for this file. Please try modifying it."

\* Plans generateAppPlan returns and fragments generateFileCodeStream yields.
GenPlans == {PlanA}

GenChunks == {"k"}

Prompts == {"todo app"}

GenIdle ==
  [pc |-> "idle", prompt |-> "", projects |-> << >>,
   initialProject |-> NoProject, files |-> EmptyMap, i |-> 0, code |-> "", failed |-> {}]

\* Lines 178-191: "Forge My App" (disabled while isLoading or for a blank
\* prompt) up to `await generateAppPlan`.
\* Line 599: the Forge button is disabled (for a non-empty prompt).
ForgeDisabled == isLoading

GenStart ==
  /\ view = "idea"
  /\ ~ForgeDisabled
  /\ ops < MaxOps
  /\ \E prompt \in Prompts :
       /\ Trim(prompt) # ""
       /\ gen' = [GenIdle EXCEPT !.pc = "planning", !.prompt = prompt, !.projects = projects]
  /\ isLoading' = TRUE
  /\ ops' = ops + 1
  /\ error' = Null
  /\ view' = "processing"
  /\ UNCHANGED <<localStorage, projects, activeProject, isModifying, isGenerating, now, partial, mod, imp>>

\* Lines 245-254: the outer catch and finally.
GenFail ==
  /\ gen' = GenIdle
  /\ error' = "An error occurred"
  /\ view' = "error"
  /\ isLoading' = FALSE
  /\ isGenerating' = FALSE
  /\ UNCHANGED <<localStorage, projects, activeProject, isModifying, now, partial, mod, imp>>

\* Lines 193-210: the plan arrives.
GenPlanOk ==
  /\ gen.pc = "planning"
  /\ \E appPlan \in GenPlans :
       LET initialProject == [id |-> now + 1, prompt |-> gen.prompt, plan |-> appPlan,
                              files |-> EmptyMap, review |-> emptyReview, createdAt |-> now + 1]
       IN  /\ gen' = [gen EXCEPT !.pc = IF Len(appPlan.fileStructure) = 0 THEN "review" ELSE "file",
                                 !.initialProject = initialProject, !.i = 1]
           /\ activeProject' = initialProject
  /\ now' = now + 1
  /\ isGenerating' = TRUE
  /\ partial' = {}
  /\ view' = "editor"
  /\ UNCHANGED <<localStorage, projects, isLoading, isModifying, error, mod, imp>>

GenPlanError ==
  /\ gen.pc = "planning"
  /\ GenFail

GenFile == gen.initialProject.plan.fileStructure[gen.i]

GenAdvance(g) ==
  [g EXCEPT !.i = @ + 1, !.code = "",
            !.pc = IF g.i = Len(g.initialProject.plan.fileStructure) THEN "review" ELSE "file"]

\* Lines 221-224: a fragment of the current file's code arrives.
GenChunk ==
  /\ gen.pc = "file"
  /\ Len(gen.code) < MaxCodeLen
  /\ \E chunk \in GenChunks :
       LET code == gen.code \o chunk IN
         /\ gen' = [gen EXCEPT !.code = code]
         /\ activeProject' = ApplyUpdaters(activeProject, <<[path |-> GenFile.path, content |-> code]>>)
  /\ partial' = IF activeProject = NoProject THEN partial ELSE partial \cup {GenFile.path}
  /\ UNCHANGED <<localStorage, projects, view, isLoading, isModifying, isGenerating, error, now, mod, imp>>

\* Line 225: the current file's stream is exhausted.
GenFileDone ==
  /\ gen.pc = "file"
  /\ gen' = GenAdvance([gen EXCEPT !.files = Put(@, GenFile.path, gen.code)])
  /\ partial' = partial \ {GenFile.path}
  /\ UNCHANGED <<localStorage, projects, activeProject, view, isLoading, isModifying, isGenerating,
                 error, now, mod, imp>>

\* Lines 226-231: generateFileCodeStream or its iteration throws.
PlaceholderKeepingPartial(code) == IF code = "" THEN errorMsg ELSE code

Placeholder(code) == errorMsg

GenFileError ==
  /\ gen.pc = "file"
  /\ gen' = GenAdvance([gen EXCEPT !.files = Put(@, GenFile.path, Placeholder(gen.code)),
                                   !.failed = @ \cup {GenFile.path}])
  /\ activeProject' = ApplyUpdaters(activeProject, <<[path |-> GenFile.path, content |-> Placeholder(gen.code)]>>)
  /\ partial' = partial \ {GenFile.path}
  /\ UNCHANGED <<localStorage, projects, view, isLoading, isModifying, isGenerating, error, now, mod, imp>>

\* Lines 235-243 and the finally: reviewCode answered.
GenCommit ==
  /\ gen.pc = "review"
  /\ \E review \in ModelReviews :
       LET finalProject == [gen.initialProject EXCEPT !.files = gen.files, !.review = review]
           updatedProjects == Append(gen.projects, finalProject)
       IN  /\ saveProjects(updatedProjects)
           /\ activeProject' = finalProject
  /\ gen' = GenIdle
  /\ partial' = {}
  /\ isLoading' = FALSE
  /\ isGenerating' = FALSE
  /\ UNCHANGED <<view, isModifying, error, now, mod, imp>>

GenReviewError ==
  /\ gen.pc = "review"
  /\ GenFail

(***************************************************************************)
(* handleImportProject.                                                    *)
(***************************************************************************)
ImpIdle == [pc |-> "idle"]

StartsWith(s, prefix) == Len(s) >= Len(prefix) /\ Substring(s, 0, Len(prefix)) = prefix

EndsWith(s, suffix) == Len(s) >= Len(suffix) /\ SubstringFrom(s, Len(s) - Len(suffix)) = suffix

\* s.lastIndexOf('/')
LastSlash(s) ==
  LET hits == {i \in 0..(Len(s) - 1) : Substring(s, i, i + 1) = "/"}
  IN  IF hits = {} THEN -1 ELSE SetMax(hits)

\* s.split('/').length
Segments(s) == Cardinality({i \in 0..(Len(s) - 1) : Substring(s, i, i + 1) = "/"}) + 1

\* An archive is the sequence of its entries, in the order of zip.files.
File(path, content) == [path |-> path, dir |-> FALSE, content |-> content]

Dir(path) == [path |-> path, dir |-> TRUE, content |-> ""]

\* The text of a project.json and the value JSON.parse gives for it; any
\* other text makes JSON.parse throw.
MetaA == [prompt |-> "app a", plan |-> PlanA, review |-> ReviewA, createdAt |-> 1]

MetaB == [prompt |-> "app b", plan |-> PlanB, review |-> StringValue("old"), createdAt |-> 2]

JsonParse(text) ==
  IF text = "{A}" THEN MetaA ELSE IF text = "{B}" THEN MetaB ELSE Undefined

ArchiveExport == <<File("project.json", "{A}"), File("a", "v1"), File("b", "v1")>>

ArchiveRaw == <<Dir("src/"), File("src/m", "x"), File("r", "y")>>

ArchiveEmpty == <<Dir("src/")>>

ArchiveNoSources == <<File("project.json", "{A}")>>

\* An archive made on macOS: the plan of its project.json lists a and b,
\* only a is in the archive.
ArchiveMac == <<File("project.json", "{A}"), File("a", "v1"), File("__MACOSX/._a", "junk")>>

\* A project folder with a second project.json further down and an entry
\* outside the folder.
ArchiveNested == <<Dir("p/"), File("p/s/project.json", "{B}"), File("p/project.json", "{A}"),
                   File("p/a", "v1"), File("p/s/b", "v2"), File("r", "y")>>

ArchiveBadJson == <<File("project.json", "{"), File("a", "v1")>>

ArchiveRawMac == <<File("__MACOSX/._r", "junk"), File("r", "y")>>

Archives == {ArchiveExport, ArchiveRaw, ArchiveEmpty, ArchiveNoSources,
             ArchiveMac, ArchiveNested, ArchiveBadJson, ArchiveRawMac}

\* Line 421
ProjectJsonPaths(zip) ==
  SelectSeq([i \in 1..Len(zip) |-> zip[i].path],
            LAMBDA path : EndsWith(path, "/project.json") \/ path = "project.json")

\* Lines 460-461: the first path with the fewest segments (the sort is stable)
ShallowestPathFirstListed(paths) == paths[1]

ShallowestPath(paths) ==
  LET least == SetMin({Segments(paths[i]) : i \in 1..Len(paths)})
  IN  paths[SetMin({i \in 1..Len(paths) : Segments(paths[i]) = least})]

\* Line 468
RootDir(projectJsonPath) ==
  IF LastSlash(projectJsonPath) # -1
  THEN Substring(projectJsonPath, 0, LastSlash(projectJsonPath) + 1) ELSE ""

\* Lines 429-437: every file entry outside __MACOSX/, under its full path
RawFilesWithDirectories(zip) ==
  LET keep == {i \in 1..Len(zip) : ~StartsWith(zip[i].path, "__MACOSX/")}
  IN  [path \in {zip[i].path : i \in keep} |->
         zip[SetMax({i \in keep : zip[i].path = path})].content]

RawFiles(zip) ==
  LET keep == {i \in 1..Len(zip) : ~zip[i].dir /\ ~StartsWith(zip[i].path, "__MACOSX/")}
  IN  [path \in {zip[i].path : i \in keep} |->
         zip[SetMax({i \in keep : zip[i].path = path})].content]

\* Lines 476-489: the entries under rootDir, with rootDir stripped
MetaFiles(zip, projectJsonPath) ==
  LET rootDir == RootDir(projectJsonPath)
      keep == {i \in 1..Len(zip) :
                 /\ StartsWith(zip[i].path, rootDir) /\ ~zip[i].dir
                 /\ zip[i].path # projectJsonPath
                 /\ ~StartsWith(zip[i].path, "__MACOSX/")
                 /\ SubstringFrom(zip[i].path, Len(rootDir)) # ""}
      name(i) == SubstringFrom(zip[i].path, Len(rootDir))
  IN  [path \in {name(i) : i \in keep} |-> zip[SetMax({i \in keep : name(i) = path})].content]

EntryContent(zip, path) == zip[SetMax({i \in 1..Len(zip) : zip[i].path = path})].content

\* Line 491: no file was found although the plan lists some (reading
\* fileStructure of a missing plan throws as well).
NoSourceFilesNeverFails(importedFiles, metadata) == FALSE

NoSourceFiles(importedFiles, metadata) ==
  /\ DOMAIN importedFiles = {}
  /\ ("plan" \notin DOMAIN metadata \/ Len(metadata.plan.fileStructure) > 0)

\* Plans and reviews analyzeImportedProject returns.
InferredPlans == {PlanB}

\* Lines 411-419: a file is chosen in the import dialog, up to the awaits
\* of loadJSZip / JSZip.loadAsync.
ImportStart ==
  /\ view = "list"
  /\ imp.pc = "idle"
  /\ ops < MaxOps
  /\ \E zip \in Archives :
       imp' = [pc |-> "loading", projects |-> projects, zip |-> zip, importedFiles |-> EmptyMap]
  /\ error' = Null
  /\ ops' = ops + 1
  /\ UNCHANGED <<localStorage, projects, activeProject, view, isLoading, isModifying,
                 isGenerating, now, partial, mod, gen>>

\* Lines 508-512: catch
ImportFail ==
  /\ imp' = ImpIdle
  /\ error' = "Import failed"
  /\ UNCHANGED <<localStorage, projects, activeProject, view, isLoading, isModifying,
                 isGenerating, now, partial, mod, gen>>

\* Lines 445-456 and 495-506: the new project is appended and saved
ImportSave(metadata, review, files) ==
  LET newProject == [id |-> now + 1, prompt |-> metadata.prompt, plan |-> metadata.plan,
                     files |-> files, review |-> review, createdAt |-> now + 1]
  IN  /\ saveProjects(Append(imp.projects, newProject))
      /\ now' = now + 1
      /\ imp' = ImpIdle
      /\ UNCHANGED <<activeProject, view, isLoading, isModifying, isGenerating, error,
                     partial, mod, gen>>

\* Lines 421-441 and 459-506: the archive is loaded and its entries read.
ImportLoaded ==
  /\ imp.pc = "loading"
  /\ LET projectJsonPaths == ProjectJsonPaths(imp.zip) IN
     IF Len(projectJsonPaths) = 0
     THEN LET importedFiles == RawFiles(imp.zip) IN
          IF DOMAIN importedFiles = {}
          THEN ImportFail
          ELSE /\ imp' = [imp EXCEPT !.pc = "analyzing", !.importedFiles = importedFiles]
               /\ UNCHANGED <<localStorage, projects, activeProject, view, isLoading, isModifying,
                              isGenerating, error, now, partial, mod, gen>>
     ELSE LET projectJsonPath == ShallowestPath(projectJsonPaths)
              metadata == JsonParse(EntryContent(imp.zip, projectJsonPath))
              importedFiles == MetaFiles(imp.zip, projectJsonPath)
          IN  IF metadata = Undefined \/ NoSourceFiles(importedFiles, metadata)
              THEN ImportFail
              ELSE ImportSave(metadata, ensureStructuredReview(metadata.review), importedFiles)

\* JSZip.loadAsync rejects (the file is not a zip archive).
ImportLoadError ==
  /\ imp.pc = "loading"
  /\ ImportFail

\* Lines 443-456: analyzeImportedProject answered.
ImportInferred ==
  /\ imp.pc = "analyzing"
  /\ \E plan \in InferredPlans, review \in ModelReviews :
       ImportSave([prompt |-> "Project imported from a ZIP archive.", plan |-> plan],
                  review, imp.importedFiles)

ImportAnalyzeError ==
  /\ imp.pc = "analyzing"
  /\ ImportFail

(***************************************************************************)
(* Specification Spec: the application.                                    *)
(***************************************************************************)
RECURSIVE LoadProjects(_)
LoadProjects(saved) ==
  IF saved = << >> THEN << >>
  ELSE <<[Head(saved) EXCEPT !.review = ensureStructuredReview(@)]>> \o LoadProjects(Tail(saved))

ParseUnused ==
  /\ pStream = ""
  /\ pFrags = << >>
  /\ pRest = ""
  /\ pParser = ParserStart

RecUnused ==
  /\ rBefore = EmptyMap
  /\ rAfter = EmptyMap
  /\ rChanged = {}
  /\ rDone = FALSE

TreeUnused ==
  /\ tFiles = << >>
  /\ tTree = << >>
  /\ tDone = FALSE

ReviewUnused ==
  /\ eReview = Undefined
  /\ eResult = Undefined
  /\ eDone = FALSE

ExportUnused ==
  /\ xProject = NoProject
  /\ xZip = << >>
  /\ xImported = NoProject

\* The state after mount: the load effect (lines 103-118) has run.
Init ==
  /\ localStorage \in InitialCollections
  /\ projects = LoadProjects(localStorage)
  /\ activeProject = NoProject
  /\ view = "list"
  /\ isLoading = FALSE
  /\ isModifying = FALSE
  /\ isGenerating = FALSE
  /\ error = Null
  /\ now = 2
  /\ partial = {}
  /\ ops = 0
  /\ mod = ModIdle
  /\ gen = GenIdle
  /\ imp = ImpIdle
  /\ ParseUnused
  /\ RecUnused
  /\ TreeUnused
  /\ ReviewUnused
  /\ ExportUnused

Next ==
  /\ \/ ModStart \/ GenStart \/ ImportStart
     \/ /\ \/ ModChunk \/ ModStreamError \/ ModStreamEnd \/ ModCommit \/ ModAnalyzeError
           \/ GenPlanOk \/ GenPlanError \/ GenChunk \/ GenFileDone \/ GenFileError
           \/ GenCommit \/ GenReviewError
           \/ ImportLoaded \/ ImportLoadError \/ ImportInferred \/ ImportAnalyzeError
           \/ NavBack \/ NavNew \/ handleSelectProject \/ handleDeleteProject
        /\ UNCHANGED ops
  /\ UNCHANGED parseVars
  /\ UNCHANGED recVars
  /\ UNCHANGED treeVars
  /\ UNCHANGED reviewVars
  /\ UNCHANGED exportVars

Spec == Init /\ [][Next]_vars

(***************************************************************************)
(* Properties of the application (specification Spec).                     *)
(***************************************************************************)
NoChangesMessage == "The model did not return any file changes. Try rephrasing your request."

StreamFailedMessage == "Failed to modify code: stream failed"

AnalysisFailedMessage == "Failed to modify code: analysis failed"

\* The steps that end a modification without a commit.
ModFailedStep == ModStreamError \/ ModAnalyzeError \/ (ModStreamEnd /\ mod'.pc = "idle")

\* The file the buffer leaves open: header parsed, no --FILE_END-- after it.
OpenFile(buffer) ==
  LET startIndex == IndexOf(buffer, startDelimiter, 0)
      endIndex == IF startIndex = -1 THEN -1
                  ELSE IndexOf(buffer, endDelimiter, startIndex + Len(startDelimiter))
      contentStartIndex == endIndex + Len(endDelimiter)
  IN  IF endIndex # -1 /\ IndexOf(buffer, fileEndDelimiter, contentStartIndex) = -1
      THEN [open |-> TRUE,
            path |-> Trim(Substring(buffer, startIndex + Len(startDelimiter), endIndex)),
            content |-> SubstringFrom(buffer, contentStartIndex)]
      ELSE [open |-> FALSE, path |-> "", content |-> ""]

\* C2: a failed modification leaves the active project (still the modified
\* project) with the files map it had before the modification started.
FailedModificationRevertsFiles ==
  [][(ModFailedStep /\ activeProject.id = mod.activeProject.id)
       => activeProject'.files = mod.oldFiles]_vars

\* C3: when the stream ends with a file open, that file is recorded as
\* completed, exactly once, with the trimmed content accumulated so far.
TruncatedFileCompleted ==
  (mod.pc = "analyzing" /\ OpenFile(mod.parser.buffer).open) =>
    LET open == OpenFile(mod.parser.buffer) IN
      /\ open.path \in DOMAIN mod.parser.updatedFiles
      /\ mod.parser.updatedFiles[open.path] = Trim(open.content)
      /\ mod.newFiles[open.path] = Trim(open.content)

\* C4: with no generation, modification or import in flight, no path of the
\* active project holds content of a file that was still streaming.
NoPartialContentWhenIdle ==
  (mod.pc = "idle" /\ gen.pc = "idle" /\ imp.pc = "idle") => partial = {}

\* C5: when the stream of a modification fails, the files of the active
\* project, with the deltas applied so far, stay as they are.
StreamAbortKeepsDeltas ==
  [][ModStreamError =>
       /\ activeProject'.files = activeProject.files
       /\ partial' = partial]_vars

StreamAbortKeepsDeltasWitness ==
  /\ mod.pc = "idle"
  /\ error = StreamFailedMessage
  /\ activeProject # NoProject
  /\ activeProject.id = 1
  /\ "a" \in partial
  /\ activeProject.files["a"] = "\nv"
  /\ activeProject.files["a"] # projects[1].files["a"]

NoMarkerMeansNoChangesReport ==
  [][(ModStreamEnd /\ IndexOf(mod.parser.buffer, startDelimiter, 0) = -1
                   /\ mod.parser.completions = << >>)
       => (mod'.pc = "idle" /\ error' = NoChangesMessage)]_vars

\* C9: the save of a generation or a modification keeps every project that
\* was persisted before it and brings back none that was deleted.
CommitKeepsEarlierSaves ==
  [][(ModCommit \/ GenCommit) =>
       /\ Ids(localStorage) \subseteq Ids(localStorage')
       /\ Ids(localStorage') \ Ids(localStorage) \subseteq
            (IF gen.pc = "review" /\ gen'.pc = "idle" THEN {gen.initialProject.id} ELSE {})]_vars

\* C10: a file whose generation fails gets the placeholder (in the files of
\* the generation and of the active project), generation goes on with the
\* next plan entry or the review, the review is requested over every plan
\* entry, and the committed project carries the placeholder.
PlanPaths(plan) == {plan.fileStructure[i].path : i \in 1..Len(plan.fileStructure)}

FileFailureIsNotFatal ==
  /\ [][GenFileError =>
          /\ gen'.files[GenFile.path] = errorMsg
          /\ activeProject'.files[GenFile.path] = errorMsg
          /\ gen'.pc = (IF gen.i < Len(gen.initialProject.plan.fileStructure) THEN "file" ELSE "review")
          /\ gen'.i = gen.i + 1]_vars
  /\ [](gen.pc = "review" =>
          /\ DOMAIN gen.files = PlanPaths(gen.initialProject.plan)
          /\ \A path \in gen.failed : gen.files[path] = errorMsg)
  /\ [][GenCommit =>
          /\ Len(localStorage') = Len(gen.projects) + 1
          /\ localStorage'[Len(localStorage')].id = gen.initialProject.id
          /\ localStorage'[Len(localStorage')].files = gen.files
          /\ projects' = localStorage'
          /\ activeProject' = localStorage'[Len(localStorage')]]_vars

FileFailureIsNotFatalWitness ==
  /\ gen.pc = "idle"
  /\ Len(localStorage) = 3
  /\ localStorage[3].files = [path \in {"a", "b"} |-> IF path = "a" THEN errorMsg ELSE "k"]
  /\ localStorage[3].review = ReviewB
  /\ activeProject = localStorage[3]

Committed == localStorage'[Len(localStorage')]

\* The step commits the import whose position was pc.
ImportCommits(pc) == imp.pc = pc /\ imp'.pc = "idle" /\ now' # now

\* The step ends the import whose position was pc without a commit.
ImportFails(pc) == imp.pc = pc /\ imp'.pc = "idle" /\ now' = now

\* C15 as stated: every project of the collection has an entry in its files
\* map for every path of its plan's fileStructure, also one imported from an
\* archive with a project.json.
PlanPathsHaveFiles ==
  \A i \in 1..Len(localStorage) :
    PlanPaths(localStorage[i].plan) \subseteq DOMAIN localStorage[i].files

\* C15 (amended): a project committed by a generation has an entry in its
\* files map for every path of its plan; a committed modification keeps every
\* key of the files map; a project imported from an archive with a
\* project.json has the files found in the archive, at least one when its
\* plan is not empty, whatever paths the plan lists.
GeneratedPlanPathsHaveFiles ==
  [][/\ (gen.pc = "review" /\ gen'.pc = "idle" /\ localStorage' # localStorage)
          => PlanPaths(Committed.plan) \subseteq DOMAIN Committed.files
     /\ (mod.pc = "analyzing" /\ mod'.pc = "idle" /\ localStorage' # localStorage)
          => \A i \in 1..Len(localStorage') :
               localStorage'[i].id = mod.activeProject.id
                 => DOMAIN mod.oldFiles \subseteq DOMAIN localStorage'[i].files
     /\ ImportCommits("loading")
          => (Len(Committed.plan.fileStructure) > 0 => DOMAIN Committed.files # {})]_vars

\* A generated project is committed; the stream of its file a gave no code.
GeneratedPlanPathsHaveFilesWitness ==
  /\ Len(localStorage) = 3
  /\ localStorage[3].prompt = "todo app"
  /\ DOMAIN localStorage[3].files = {"a", "b"}
  /\ localStorage[3].files["a"] = ""
  /\ gen.pc = "idle"

\* C16: when the stream ends with no file completed and a buffer that is
\* empty or only whitespace, the no-changes message is shown, the files of
\* the project are what they were, the review captured before the
\* modification is back, nothing is saved and isModifying is cleared.
EmptyResultIsNoChanges ==
  [][(/\ ModStreamEnd
      /\ DOMAIN mod.parser.updatedFiles = {}
      /\ Trim(mod.parser.buffer) = "")
       => /\ error' = NoChangesMessage
          /\ mod'.pc = "idle"
          /\ ~isModifying'
          /\ UNCHANGED <<localStorage, projects>>
          /\ (activeProject # NoProject =>
                /\ activeProject'.files = activeProject.files
                /\ activeProject'.review = mod.originalReview)]_vars

EmptyResultIsNoChangesWitness ==
  /\ error = NoChangesMessage
  /\ mod.pc = "idle"
  /\ ~isModifying
  /\ activeProject # NoProject
  /\ activeProject = [StoredA EXCEPT !.review = ReviewA]
  /\ localStorage = <<StoredA, StoredB>>

\* The indices of the file entries of an archive, of its project.json entries
\* and of those of the latter with the fewest path segments.
FileEntries(zip) == {i \in 1..Len(zip) : ~zip[i].dir}

MetadataEntries(zip) ==
  {i \in FileEntries(zip) : zip[i].path = "project.json" \/ EndsWith(zip[i].path, "/project.json")}

ShallowestEntries(zip) ==
  {i \in MetadataEntries(zip) :
     \A j \in MetadataEntries(zip) : Segments(zip[i].path) <= Segments(zip[j].path)}

\* The directory prefix of the project.json at index i.
Prefix(zip, i) == Substring(zip[i].path, 0, Len(zip[i].path) - Len("project.json"))

\* The file entries imported beside the project.json at index i.
Beside(zip, i) ==
  {j \in FileEntries(zip) \ {i} :
     StartsWith(zip[j].path, Prefix(zip, i)) /\ ~StartsWith(zip[j].path, "__MACOSX/")}

\* The file entries imported from an archive without project.json.
Importable(zip) == {j \in FileEntries(zip) : ~StartsWith(zip[j].path, "__MACOSX/")}

\* A files map as its set of (path, content) pairs.
Pairs(files) == {<<path, files[path]>> : path \in DOMAIN files}

\* The archive cannot be imported: it has no importable file, or its
\* project.json does not parse, or its project.json has a plan that is not
\* empty and there is no source file beside it.
Unimportable(zip) ==
  \/ MetadataEntries(zip) = {} /\ Importable(zip) = {}
  \/ \E i \in ShallowestEntries(zip) :
       \/ JsonParse(zip[i].content) = Undefined
       \/ /\ Len(JsonParse(zip[i].content).plan.fileStructure) > 0
          /\ Beside(zip, i) = {}

\* C17: an import that fails for a structural reason shows an error and
\* leaves the collection, in memory and persisted, as it was; an archive
\* that cannot be imported makes the import fail.
FailedImportKeepsCollection ==
  [][/\ (ImportFails("loading") \/ ImportFails("analyzing"))
          => (error' # Null /\ UNCHANGED <<localStorage, projects>>)
     /\ (imp.pc = "loading" /\ imp' # imp /\ Unimportable(imp.zip))
          => ImportFails("loading")]_vars

\* The import of ArchiveNoSources, ArchiveEmpty or ArchiveBadJson has failed.
FailedImportKeepsCollectionWitness ==
  /\ error = "Import failed"
  /\ imp.pc = "idle"
  /\ ops = 1
  /\ localStorage = <<StoredA, StoredB>>
  /\ projects = LoadProjects(<<StoredA, StoredB>>)

\* C18: with project.json entries in the archive, the one with the fewest
\* path segments gives the metadata, and the files of the imported project
\* are exactly the other file entries whose path starts with its directory
\* prefix and not with __MACOSX/, under their path without that prefix, with
\* their content.
MetadataImportTakesFilesBeside ==
  [][(ImportCommits("loading") /\ MetadataEntries(imp.zip) # {})
       => \E i \in ShallowestEntries(imp.zip) :
            /\ Committed.prompt = JsonParse(imp.zip[i].content).prompt
            /\ Committed.plan = JsonParse(imp.zip[i].content).plan
            /\ Pairs(Committed.files) =
                 {<<SubstringFrom(imp.zip[j].path, Len(Prefix(imp.zip, i))), imp.zip[j].content>> :
                    j \in Beside(imp.zip, i)}]_vars

\* ArchiveNested has been imported.
MetadataImportTakesFilesBesideWitness ==
  /\ Len(localStorage) = 3
  /\ localStorage[3].prompt = "app a"
  /\ Pairs(localStorage[3].files) = {<<"a", "v1">>, <<"s/b", "v2">>, <<"s/project.json", "{B}">>}

\* C19: without project.json in the archive, the files of the imported
\* project are exactly the file entries whose path does not start with
\* __MACOSX/, under their full path, and its plan and review are those the
\* model client inferred; the archive of one directory entry and two files
\* gives exactly the two files.
InferredImportTakesAllFiles ==
  [][ImportCommits("analyzing")
       => /\ MetadataEntries(imp.zip) = {}
          /\ Pairs(Committed.files) =
               {<<imp.zip[j].path, imp.zip[j].content>> : j \in Importable(imp.zip)}
          /\ Committed.plan \in InferredPlans
          /\ Committed.review \in ModelReviews
          /\ (imp.zip = ArchiveRaw => Pairs(Committed.files) = {<<"src/m", "x">>, <<"r", "y">>})]_vars

\* ArchiveRaw has been imported.
InferredImportTakesAllFilesWitness ==
  /\ Len(localStorage) = 3
  /\ localStorage[3].prompt = "Project imported from a ZIP archive."
  /\ localStorage[3].plan = PlanB
  /\ Pairs(localStorage[3].files) = {<<"src/m", "x">>, <<"r", "y">>}

\* C20: when no handler is in flight, every project of the collection and
\* the active project have a review whose three categories are lists,
\* whatever the model client or the storage supplied.
ReviewsAreStructured ==
  (mod.pc = "idle" /\ gen.pc = "idle" /\ imp.pc = "idle") =>
    /\ \A i \in 1..Len(projects) : IsStructured(projects[i].review)
    /\ (activeProject # NoProject => IsStructured(activeProject.review))

\* C26: a step of the modification or generation started for one project
\* changes neither the files of another project that has become the active
\* one nor which project is active.
StreamTouchesOnlyItsProject ==
  [][/\ (/\ mod.pc # "idle" /\ mod' # mod
         /\ activeProject # NoProject /\ activeProject.id # mod.activeProject.id)
          => (activeProject'.id = activeProject.id /\ activeProject'.files = activeProject.files)
     /\ (/\ gen.pc \notin {"idle", "planning"} /\ gen' # gen
         /\ activeProject # NoProject /\ activeProject.id # gen.initialProject.id)
          => (activeProject'.id = activeProject.id /\ activeProject'.files = activeProject.files)]_vars

\* C27: a committed modification keeps id, prompt, plan and createdAt; its
\* files are those before the modification overlaid with the files the
\* stream completed; the persisted record with its id is the new active
\* project and every other record of the collection is as it was.
CommitChangesOnlyFilesAndReview ==
  [][ModCommit =>
       /\ activeProject'.id = mod.activeProject.id
       /\ activeProject'.prompt = mod.activeProject.prompt
       /\ activeProject'.plan = mod.activeProject.plan
       /\ activeProject'.createdAt = mod.activeProject.createdAt
       /\ DOMAIN activeProject'.files = (DOMAIN mod.oldFiles) \cup (DOMAIN mod.parser.updatedFiles)
       /\ \A path \in DOMAIN activeProject'.files :
            activeProject'.files[path] =
              IF path \in DOMAIN mod.parser.updatedFiles
              THEN mod.parser.updatedFiles[path] ELSE mod.oldFiles[path]
       /\ \E i \in 1..Len(localStorage') : localStorage'[i] = activeProject'
       /\ Len(projects') = Len(projects)
       /\ \A i \in 1..Len(projects) :
            projects[i].id # mod.activeProject.id => projects'[i] = projects[i]]_vars

(***************************************************************************)
(* Specification SpecParse: the parser fed every split of a well-formed    *)
(* protocol stream into at most MaxFragments fragments.                    *)
(***************************************************************************)
Example1 == "--FILE_START: a.txt--\nhello\n--FILE_END--"

WellFormedStreams ==
  { "",
    Example1,
    "--FILE_START: a--v2--FILE_END----FILE_START: b--\n--FILE_END--",
    "--FILE_START: a--x--y\n--FILE_END--\n--FILE_START: a--z--FILE_END--" }

AppUnused ==
  /\ localStorage = << >>
  /\ projects = << >>
  /\ activeProject = NoProject
  /\ view = "list"
  /\ isLoading = FALSE
  /\ isModifying = FALSE
  /\ isGenerating = FALSE
  /\ error = Null
  /\ now = 0
  /\ partial = {}
  /\ ops = 0
  /\ mod = ModIdle
  /\ gen = GenIdle
  /\ imp = ImpIdle

ParseInit ==
  /\ AppUnused
  /\ RecUnused
  /\ TreeUnused
  /\ ReviewUnused
  /\ ExportUnused
  /\ pStream \in WellFormedStreams
  /\ pFrags = << >>
  /\ pRest = pStream
  /\ pParser = ParserStart

\* The producer delivers the next fragment; the last permitted fragment
\* carries the whole remainder.
FeedFragment ==
  /\ pRest # ""
  /\ \E n \in 1..Len(pRest) :
       /\ (Len(pFrags) = MaxFragments - 1) => n = Len(pRest)
       /\ pFrags' = Append(pFrags, Substring(pRest, 0, n))
       /\ pRest' = SubstringFrom(pRest, n)
       /\ pParser' = HandleChunk(pParser, Substring(pRest, 0, n))
  /\ UNCHANGED pStream
  /\ UNCHANGED appVars
  /\ UNCHANGED recVars
  /\ UNCHANGED treeVars
  /\ UNCHANGED reviewVars
  /\ UNCHANGED exportVars

ParseNext == FeedFragment

SpecParse == ParseInit /\ [][ParseNext]_vars

\* C1: for a well-formed stream, every split into fragments records the same
\* sequence of completed files (path, trimmed content), in the same order, as
\* feeding the stream as one fragment; the a.txt example yields exactly one
\* completion (a.txt, "hello").
ChunkingInvariant ==
  pRest = "" =>
    /\ pParser.completions = FeedAll(ParserStart, <<pStream>>).completions
    /\ pParser.updatedFiles = FeedAll(ParserStart, <<pStream>>).updatedFiles
    /\ (pStream = Example1 => pParser.completions = <<[path |-> "a.txt", code |-> "hello"]>>)

ChunkingWitness ==
  /\ pFrags = <<"--FILE_ST", "ART: a.txt--\nhel", "lo\n--FILE_END--">>
  /\ pRest = ""
  /\ pParser.completions = <<[path |-> "a.txt", code |-> "hello"]>>

\* The blocks each stream of WellFormedStreams is made of: path and content
\* as written between the header and --FILE_END--.
Block(path, content) == [path |-> path, content |-> content]

Blocks(stream) ==
  IF stream = Example1 THEN <<Block("a.txt", "\nhello\n")>>
  ELSE IF stream = "--FILE_START: a--v2--FILE_END----FILE_START: b--\n--FILE_END--"
    THEN <<Block("a", "v2"), Block("b", "\n")>>
  ELSE IF stream = "--FILE_START: a--x--y\n--FILE_END--\n--FILE_START: a--z--FILE_END--"
    THEN <<Block("a", "x--y\n"), Block("a", "z")>>
  ELSE << >>

\* Every setActiveProject updater queued while the fragments were fed.
RECURSIVE AppliedAll(_, _)
AppliedAll(st, frags) ==
  IF frags = << >> THEN << >>
  ELSE HandleChunk(st, Head(frags)).applied \o AppliedAll(HandleChunk(st, Head(frags)), Tail(frags))

IsPrefix(s, t) == Len(s) <= Len(t) /\ SubSeq(t, 1, Len(s)) = s

\* Positions i < j of two updaters for the same file with none for that
\* file in between.
Successive(applied, i, j) ==
  /\ i < j
  /\ applied[i].path = applied[j].path
  /\ \A k \in (i + 1)..(j - 1) : applied[k].path # applied[i].path

\* C24 as stated: the successive contents applied for one file are each an
\* extension of the previous one; each block of the stream gives exactly one
\* completion, in the order of the stream.
DeltasOnlyGrow ==
  LET applied == AppliedAll(ParserStart, pFrags) IN
    /\ \A i, j \in 1..Len(applied) :
         Successive(applied, i, j) => IsPrefix(applied[i].content, applied[j].content)
    /\ pRest = "" =>
         pParser.completions =
           [k \in 1..Len(Blocks(pStream)) |->
              [path |-> Blocks(pStream)[k].path, code |-> Trim(Blocks(pStream)[k].content)]]

\* C24 (amended): while a block is open, each content applied for its file
\* is an extension of the one before; the content applied when the block
\* completes is the trimmed content of the block, which can be shorter than
\* the last content applied while it was open; each block of the stream gives
\* exactly one completion, in the order of the stream.
OpenBlockDeltasOnlyGrow ==
  LET applied == AppliedAll(ParserStart, pFrags) IN
    /\ \A i, j \in 1..Len(applied) :
         (Successive(applied, i, j) /\ applied[i].partial /\ applied[j].partial)
           => IsPrefix(applied[i].content, applied[j].content)
    /\ \A j \in 1..Len(applied) :
         ~applied[j].partial => applied[j].content = Trim(applied[j].content)
    /\ pRest = "" =>
         /\ pParser.completions =
              [k \in 1..Len(Blocks(pStream)) |->
                 [path |-> Blocks(pStream)[k].path, code |-> Trim(Blocks(pStream)[k].content)]]
         /\ SelectSeq(applied, LAMBDA u : ~u.partial) =
              [k \in 1..Len(pParser.completions) |->
                 [path |-> pParser.completions[k].path,
                  content |-> pParser.completions[k].code, partial |-> FALSE]]

OpenBlockDeltasOnlyGrowWitness ==
  /\ pFrags = <<"--FILE_START: a.txt--\nhel", "lo\n", "--FILE_END--">>
  /\ pRest = ""
  /\ AppliedAll(ParserStart, pFrags) =
       <<[path |-> "a.txt", content |-> "\nhel", partial |-> TRUE],
         [path |-> "a.txt", content |-> "\nhello\n", partial |-> TRUE],
         [path |-> "a.txt", content |-> "hello", partial |-> FALSE]>>

\* C25: the content applied for a file that is still open is the content
\* received so far for it without leading or trailing whitespace.
PartialContentIsTrimmed ==
  LET applied == AppliedAll(ParserStart, pFrags) IN
    \A i \in 1..Len(applied) :
      applied[i].partial => applied[i].content = Trim(applied[i].content)

(***************************************************************************)
(* Specification SpecReconcile: analyzeChanges applied to every pair of    *)
(* file maps over RecPaths and RecContents.                                *)
(***************************************************************************)
RecPaths == {"A.java", "B.xml", "C.java"}

RecContents == {"", "v1", "v2"}

FileMaps == UNION {[keys -> RecContents] : keys \in SUBSET RecPaths}

RecInit ==
  /\ AppUnused
  /\ ParseUnused
  /\ TreeUnused
  /\ ReviewUnused
  /\ ExportUnused
  /\ rBefore \in FileMaps
  /\ rAfter \in FileMaps
  /\ rChanged = {}
  /\ rDone = FALSE

Reconcile ==
  /\ ~rDone
  /\ rChanged' = analyzeChangesBefore(rBefore, rAfter)
  /\ rDone' = TRUE
  /\ UNCHANGED <<rBefore, rAfter>>
  /\ UNCHANGED appVars
  /\ UNCHANGED parseVars
  /\ UNCHANGED treeVars
  /\ UNCHANGED reviewVars
  /\ UNCHANGED exportVars

RecNext == Reconcile

SpecReconcile == RecInit /\ [][RecNext]_vars

\* C8: the paths shown as BEFORE are exactly the paths that are keys of both
\* maps and whose contents differ by exact string comparison, also when the
\* new content is the empty string.
ChangedIsExactDifference ==
  rDone => rChanged = {path \in (DOMAIN rBefore) \cap (DOMAIN rAfter) : rBefore[path] # rAfter[path]}

\* C22: analyzeChanges applied to the same map twice reports no changed
\* path, and the BEFORE section is the 'no files were changed' text.
SameMapsReportNoChange ==
  (rDone /\ rBefore = rAfter) =>
    /\ rChanged = {}
    /\ oldFilesContent(rBefore, rAfter) = {NoFilesChangedText}

SameMapsReportNoChangeWitness ==
  /\ rDone
  /\ rBefore = [path \in RecPaths |-> IF path = "B.xml" THEN "v2" ELSE "v1"]
  /\ rAfter = rBefore
  /\ rChanged = {}

\* C23: the paths analyzeChanges reports as changed are keys of the old map
\* and keys of the new map: a file added by the new map is not reported, nor
\* a file the new map lacks.
ChangedPathsAreInBothMaps ==
  rDone => rChanged \subseteq (DOMAIN rBefore) \cap (DOMAIN rAfter)

ChangedPathsAreInBothMapsWitness ==
  /\ rDone
  /\ rBefore = [path \in {"A.java", "B.xml"} |-> "v1"]
  /\ rAfter = [path \in {"A.java", "C.java"} |-> IF path = "A.java" THEN "v2" ELSE "v1"]
  /\ rChanged = {"A.java"}

(***************************************************************************)
(* Specification SpecTree: buildFileTree applied to every list of at most  *)
(* MaxTreeFiles file plans over TreePaths, and the listing FileExplorer    *)
(* makes of the result.                                                    *)
(*                                                                         *)
(* A FileTree object is [entries |-> <<[name, node], ...>>], the entries   *)
(* in the order the keys were first assigned; a leaf is the FilePlan       *)
(* record itself, as in the source.                                        *)
(***************************************************************************)
MaxTreeFiles == 3

\* The character at 1-based position i of s.
CharAt(s, i) == SubSeq(s, i, i)

\* 1-based position of character c in the string order.
CharIndex(order, c) == CHOOSE i \in 1..Len(order) : CharAt(order, i) = c

LowerLetters == "abcdefghijklmnopqrstuvwxyz"

UpperLetters == "ABCDEFGHIJKLMNOPQRSTUVWXYZ"

Digits == "0123456789"

IsUpper(c) == \E i \in 1..Len(UpperLetters) : CharAt(UpperLetters, i) = c

ToLower(c) == IF IsUpper(c) THEN CharAt(LowerLetters, CharIndex(UpperLetters, c)) ELSE c

\* Lexicographic comparison of two sequences of integers: -1, 0 or 1.
RECURSIVE SeqCompare(_, _)
SeqCompare(u, v) ==
  IF u = << >> /\ v = << >> THEN 0
  ELSE IF u = << >> THEN -1
  ELSE IF v = << >> THEN 1
  ELSE IF Head(u) < Head(v) THEN -1
  ELSE IF Head(u) > Head(v) THEN 1
  ELSE SeqCompare(Tail(u), Tail(v))

\* String.prototype.localeCompare with the default collation: the strings
\* are compared by the primary weights of their characters (punctuation,
\* then digits, then letters without regard to case) and, when those are
\* equal, by case, lower case first.
PrimaryOrder == "_-./0123456789abcdefghijklmnopqrstuvwxyz"

PrimaryWeights(s) == [i \in 1..Len(s) |-> CharIndex(PrimaryOrder, ToLower(CharAt(s, i)))]

TertiaryWeights(s) == [i \in 1..Len(s) |-> IF IsUpper(CharAt(s, i)) THEN 1 ELSE 0]

localeCompare(a, b) ==
  IF SeqCompare(PrimaryWeights(a), PrimaryWeights(b)) # 0
  THEN SeqCompare(PrimaryWeights(a), PrimaryWeights(b))
  ELSE SeqCompare(TertiaryWeights(a), TertiaryWeights(b))

\* [...files].sort((a, b) => a.path.localeCompare(b.path)): the sort is
\* stable, files comparing equal keep the order of the input.
RECURSIVE InsertSorted(_, _)
InsertSorted(sorted, file) ==
  IF sorted = << >> THEN <<file>>
  ELSE IF localeCompare(Head(sorted).path, file.path) <= 0
    THEN <<Head(sorted)>> \o InsertSorted(Tail(sorted), file)
  ELSE <<file>> \o sorted

RECURSIVE SortPrefix(_, _)
SortPrefix(files, n) ==
  IF n = 0 THEN << >> ELSE InsertSorted(SortPrefix(files, n - 1), files[n])

SortFilesUnsorted(files) == files

SortFiles(files) == SortPrefix(files, Len(files))

\* path.split('/')
RECURSIVE Split(_)
Split(path) ==
  LET slash == IndexOf(path, "/", 0)
  IN  IF slash = -1 THEN <<path>>
      ELSE <<Substring(path, 0, slash)>> \o Split(SubstringFrom(path, slash + 1))

EmptyTree == [entries |-> << >>]

IsTree(node) == "entries" \in DOMAIN node

HasKey(tree, name) == \E i \in 1..Len(tree.entries) : tree.entries[i].name = name

\* tree[name]
GetKey(tree, name) ==
  tree.entries[CHOOSE i \in 1..Len(tree.entries) : tree.entries[i].name = name].node

\* tree[name] = node: an existing key keeps its place, a new one is added last
SetKey(tree, name, node) ==
  IF HasKey(tree, name)
  THEN [entries |-> [i \in 1..Len(tree.entries) |->
                       IF tree.entries[i].name = name
                       THEN [name |-> name, node |-> node] ELSE tree.entries[i]]]
  ELSE [entries |-> Append(tree.entries, [name |-> name, node |-> node])]

\* 'path' in node: a FilePlan has the property `path`; a FileTree object has
\* it when one of its keys is "path".
PathIn(node) == IF IsTree(node) THEN HasKey(node, "path") ELSE "path" \in DOMAIN node

\* The body of sortedFiles.forEach: walk the segments of file.path from
\* currentLevel, creating or replacing directories, and attach the file at
\* the last segment.
RECURSIVE InsertFile(_, _, _)
InsertFile(currentLevel, parts, file) ==
  LET part == Head(parts) IN
  IF Len(parts) = 1 THEN SetKey(currentLevel, part, file)
  ELSE LET next == IF ~HasKey(currentLevel, part) \/ PathIn(GetKey(currentLevel, part))
                   THEN EmptyTree
                   ELSE GetKey(currentLevel, part)
       IN  SetKey(currentLevel, part, InsertFile(next, Tail(parts), file))

RECURSIVE InsertAll(_, _)
InsertAll(tree, sortedFiles) ==
  IF sortedFiles = << >> THEN tree
  ELSE InsertAll(InsertFile(tree, Split(Head(sortedFiles).path), Head(sortedFiles)), Tail(sortedFiles))

buildFileTree(files) == InsertAll(EmptyTree, SortFiles(files))

\* A canonical array index: "0", or digits without a leading zero.
IsArrayIndex(name) ==
  /\ name # ""
  /\ \A i \in 1..Len(name) : \E d \in 1..Len(Digits) : CharAt(Digits, d) = CharAt(name, i)
  /\ (Len(name) > 1 => CharAt(name, 1) # "0")

RECURSIVE ToNumber(_)
ToNumber(name) ==
  IF name = "" THEN 0
  ELSE 10 * ToNumber(SubSeq(name, 1, Len(name) - 1)) + (CharIndex(Digits, CharAt(name, Len(name))) - 1)

\* The entries of seq ordered by ascending ToNumber(name).
RECURSIVE SortByNumber(_)
SortByNumber(seq) ==
  IF seq = << >> THEN << >>
  ELSE LET i == CHOOSE i \in 1..Len(seq) : \A j \in 1..Len(seq) : ToNumber(seq[i].name) <= ToNumber(seq[j].name)
       IN  <<seq[i]>> \o SortByNumber(SubSeq(seq, 1, i - 1) \o SubSeq(seq, i + 1, Len(seq)))

IndexEntry(entry) == IsArrayIndex(entry.name)

StringEntry(entry) == ~IsArrayIndex(entry.name)

\* Object.entries(node): integer-like keys in ascending numeric order, then
\* the other keys in the order they were first assigned.
ObjectEntries(tree) ==
  SortByNumber(SelectSeq(tree.entries, IndexEntry)) \o SelectSeq(tree.entries, StringEntry)

\* typeof a === 'object' && a !== null && ('path' in a) === false
IsDirEntry(entry) == ~PathIn(entry.node)

IsFileEntry(entry) == PathIn(entry.node)

\* Object.entries(node).sort(...): the comparator only separates the values
\* it takes for directories from the others, and the sort is stable.
sortedEntries(node) ==
  SelectSeq(ObjectEntries(node), IsDirEntry) \o SelectSeq(ObjectEntries(node), IsFileEntry)

\* The listings rendered by FileExplorer and, recursively, by each TreeNode
\* whose isDirectory is true.
RECURSIVE Listings(_)
Listings(node) ==
  {sortedEntries(node)} \cup
  UNION {Listings(node.entries[i].node) :
           i \in {j \in 1..Len(node.entries) : ~PathIn(node.entries[j].node)}}

TreePaths == {"9", "10", "a", "README.md", "d/path", "d/x"}

\* The file plans of the lists: one per path, and a second one, with another
\* description, for the path "a".
TreeFiles ==
  {[path |-> path, description |-> "d1"] : path \in TreePaths}
    \cup {[path |-> "a", description |-> "d2"]}

FileLists == UNION {[1..n -> TreeFiles] : n \in 0..MaxTreeFiles}

TreeInit ==
  /\ AppUnused
  /\ ParseUnused
  /\ RecUnused
  /\ ReviewUnused
  /\ ExportUnused
  /\ tFiles \in FileLists
  /\ tTree = << >>
  /\ tDone = FALSE

\* useMemo(() => buildFileTree(activeProject.plan.fileStructure))
BuildTree ==
  /\ ~tDone
  /\ tTree' = buildFileTree(tFiles)
  /\ tDone' = TRUE
  /\ UNCHANGED tFiles
  /\ UNCHANGED appVars
  /\ UNCHANGED parseVars
  /\ UNCHANGED recVars
  /\ UNCHANGED reviewVars
  /\ UNCHANGED exportVars

TreeNext == BuildTree

SpecTree == TreeInit /\ [][TreeNext]_vars

\* The characters of paths in ascending order of their code units.
CodeUnitOrder == "-./0123456789ABCDEFGHIJKLMNOPQRSTUVWXYZ_abcdefghijklmnopqrstuvwxyz"

CodeUnits(s) == [i \in 1..Len(s) |-> CharIndex(CodeUnitOrder, CharAt(s, i))]

\* a < b for strings (comparison by code units)
StringLess(a, b) == SeqCompare(CodeUnits(a), CodeUnits(b)) = -1

Paths(files) == {files[i].path : i \in 1..Len(files)}

DistinctPaths(files) == Cardinality(Paths(files)) = Len(files)

\* C11: at every level listed by FileExplorer, siblings of the same kind
\* (directory with directory, file with file) appear in ascending order of
\* their segment names under default string ordering.
SiblingsInNameOrder ==
  (tDone /\ DistinctPaths(tFiles)) =>
    \A listing \in Listings(tTree) : \A i, j \in 1..Len(listing) :
      (i < j /\ IsTree(listing[i].node) = IsTree(listing[j].node))
        => StringLess(listing[i].name, listing[j].name)

\* C12: at every level listed by FileExplorer, every directory is listed
\* before every file, also a directory with a child named `path`.
DirectoriesBeforeFiles ==
  (tDone /\ DistinctPaths(tFiles)) =>
    \A listing \in Listings(tTree) : \A i, j \in 1..Len(listing) :
      i < j => ~(~IsTree(listing[i].node) /\ IsTree(listing[j].node))

Bijections(n) == {f \in [1..n -> 1..n] : \A i, j \in 1..n : f[i] = f[j] => i = j}

Permuted(files) == {[i \in 1..Len(files) |-> files[f[i]]] : f \in Bijections(Len(files))}

\* C13 as stated: buildFileTree applied to any permutation of the list gives
\* the same tree, also when a path occurs more than once with different
\* payloads.
PermutationInvariant ==
  tDone => \A list \in Permuted(tFiles) : buildFileTree(list) = tTree

RECURSIVE Leaves(_)
Leaves(node) ==
  IF IsTree(node) THEN UNION {Leaves(node.entries[i].node) : i \in 1..Len(node.entries)}
  ELSE {node}

LastWithPath(files, path) ==
  files[SetMax({i \in 1..Len(files) : files[i].path = path})]

\* C13 (amended): for a list whose paths are pairwise distinct, buildFileTree
\* applied to any permutation gives the same tree; when a path occurs more
\* than once, each leaf of the tree is the last entry of the list, in input
\* order, with that path.
PermutationInvariantDistinct ==
  tDone =>
    /\ DistinctPaths(tFiles) => \A list \in Permuted(tFiles) : buildFileTree(list) = tTree
    /\ \A leaf \in Leaves(tTree) : leaf = LastWithPath(tFiles, leaf.path)

PermutationInvariantDistinctWitness ==
  /\ tDone
  /\ tFiles = <<[path |-> "d/x", description |-> "d1"],
                [path |-> "README.md", description |-> "d1"],
                [path |-> "a", description |-> "d2"]>>
  /\ tTree = buildFileTree(<<tFiles[3], tFiles[1], tFiles[2]>>)

\* 'path' in node === false
isDirectory(node) == ~PathIn(node)

\* Following the segments `parts` from the directory `level` goes through
\* directory nodes only and ends at the leaf `file`.
RECURSIVE Reaches(_, _, _)
Reaches(level, parts, file) ==
  /\ HasKey(level, Head(parts))
  /\ LET node == GetKey(level, Head(parts)) IN
       IF Len(parts) = 1 THEN ~IsTree(node) /\ node = file
       ELSE IsTree(node) /\ isDirectory(node) /\ Reaches(node, Tail(parts), file)

ProperDirectoryPrefix(p, q) ==
  Len(q) > Len(p) + 1 /\ SubSeq(q, 1, Len(p) + 1) = p \o "/"

PrefixFree(files) ==
  \A i, j \in 1..Len(files) : ~ProperDirectoryPrefix(files[i].path, files[j].path)

\* C28: for a list of distinct paths none of which is a proper directory
\* prefix of another, every input file is reachable in the tree returned by
\* buildFileTree as a leaf carrying its own payload, by following the
\* segments of its path through directory nodes, whatever the segments are
\* named.
EveryPathIsALeaf ==
  (tDone /\ DistinctPaths(tFiles) /\ PrefixFree(tFiles)) =>
    \A i \in 1..Len(tFiles) : Reaches(tTree, Split(tFiles[i].path), tFiles[i])

(***************************************************************************)
(* Specification SpecReview: ensureStructuredReview applied to every       *)
(* stored review value of StoredReviews.                                   *)
(***************************************************************************)
SuggestionLists ==
  { << >>,
    <<[id |-> "npe", description |-> "null view"]>>,
    <<[id |-> "npe", description |-> "null view"], [id |-> "pad", description |-> "padding"]>> }

Categories == {"crashBugs", "uiUxImprovements", "otherSuggestions"}

NumberValue(n) == [type |-> "number", value |-> n]

\* What JSON.parse can give for the `review` of a stored project: nothing,
\* a string, a number, an object with some or all of the three categories.
StoredReviews ==
  {Undefined, NumberValue(5)}
    \cup {StringValue(text) : text \in {"", "old", " ", "fix the crash"}}
    \cup UNION {[keys -> SuggestionLists] : keys \in SUBSET Categories}

ReviewInit ==
  /\ AppUnused
  /\ ParseUnused
  /\ RecUnused
  /\ TreeUnused
  /\ ExportUnused
  /\ eReview \in StoredReviews
  /\ eResult = Undefined
  /\ eDone = FALSE

\* review: ensureStructuredReview(p.review)
Normalize ==
  /\ ~eDone
  /\ eResult' = ensureStructuredReview(eReview)
  /\ eDone' = TRUE
  /\ UNCHANGED eReview
  /\ UNCHANGED appVars
  /\ UNCHANGED parseVars
  /\ UNCHANGED recVars
  /\ UNCHANGED treeVars
  /\ UNCHANGED exportVars

ReviewNext == Normalize

SpecReview == ReviewInit /\ [][ReviewNext]_vars

IsStringValue(review) == "type" \in DOMAIN review /\ review.type = "string"

\* C21: ensureStructuredReview gives, for a bare string s, empty crash and
\* UI lists and an `other` list of exactly one suggestion whose description
\* is s; for a value whose three categories are lists, the value itself; for
\* a missing or otherwise invalid value, three empty lists.
ReviewIsNormalized ==
  eDone =>
    IF IsStringValue(eReview)
    THEN /\ eResult.crashBugs = << >>
         /\ eResult.uiUxImprovements = << >>
         /\ Len(eResult.otherSuggestions) = 1
         /\ eResult.otherSuggestions[1].description = eReview.value
    ELSE IF Categories \subseteq DOMAIN eReview
    THEN eResult = eReview
    ELSE eResult = emptyReview

(***************************************************************************)
(* Specification SpecExport: createAndDownloadZip applied to a project,    *)
(* and the metadata branch of handleImportProject applied to the archive   *)
(* it wrote.                                                               *)
(***************************************************************************)
MaxExportFiles == 2

\* JSON values: StringValue, NumberValue, arrays and objects (the keys of an
\* object in the order of their insertion).
ArrayValue(items) == [type |-> "array", items |-> items]

ObjectValue(keys, values) == [type |-> "object", keys |-> keys, values |-> values]

RECURSIVE Spaces(_)
Spaces(n) == IF n = 0 THEN "" ELSE " " \o Spaces(n - 1)

RECURSIVE NumberText(_)
NumberText(n) ==
  IF n < 10 THEN CharAt(Digits, n + 1)
  ELSE NumberText(n \div 10) \o CharAt(Digits, (n % 10) + 1)

EscapeChar(c) ==
  IF c = "\"" THEN "\\\""
  ELSE IF c = "\\" THEN "\\\\"
  ELSE IF c = "\n" THEN "\\n"
  ELSE c

RECURSIVE Escaped(_)
Escaped(s) ==
  IF s = "" THEN "" ELSE EscapeChar(CharAt(s, 1)) \o Escaped(SubSeq(s, 2, Len(s)))

\* JSON.stringify of a string: quoted, with ", \ and the newline escaped.
JSONQuoteUnescaped(s) == "\"" \o s \o "\""

JSONQuote(s) == "\"" \o Escaped(s) \o "\""

RECURSIVE JoinLines(_)
JoinLines(lines) ==
  IF Len(lines) = 1 THEN lines[1] ELSE lines[1] \o ",\n" \o JoinLines(Tail(lines))

\* JSON.stringify(value, null, 2) at nesting `indent`
RECURSIVE Stringify(_, _)
Stringify(value, indent) ==
  IF value.type = "string" THEN JSONQuote(value.value)
  ELSE IF value.type = "number" THEN NumberText(value.value)
  ELSE IF value.type = "array"
    THEN IF Len(value.items) = 0 THEN "[]"
         ELSE "[\n"
              \o JoinLines([i \in 1..Len(value.items) |->
                              Spaces(indent + 2) \o Stringify(value.items[i], indent + 2)])
              \o "\n" \o Spaces(indent) \o "]"
  ELSE IF Len(value.keys) = 0 THEN "{}"
       ELSE "{\n"
            \o JoinLines([i \in 1..Len(value.keys) |->
                            Spaces(indent + 2) \o JSONQuote(value.keys[i]) \o ": "
                              \o Stringify(value.values[i], indent + 2)])
            \o "\n" \o Spaces(indent) \o "}"

\* The JSON values of the model's records.
SuggestionsJson(list) ==
  ArrayValue([i \in 1..Len(list) |->
                ObjectValue(<<"id", "description">>,
                            <<StringValue(list[i].id), StringValue(list[i].description)>>)])

ReviewJson(review) ==
  LET present(category) == category \in DOMAIN review
      keys == SelectSeq(<<"crashBugs", "uiUxImprovements", "otherSuggestions">>, present)
  IN  ObjectValue(keys, [i \in 1..Len(keys) |-> SuggestionsJson(review[keys[i]])])

PlanJson(plan) ==
  ObjectValue(<<"appName", "fileStructure">>,
              <<StringValue(plan.appName),
                ArrayValue([i \in 1..Len(plan.fileStructure) |->
                              ObjectValue(<<"path", "description">>,
                                          <<StringValue(plan.fileStructure[i].path),
                                            StringValue(plan.fileStructure[i].description)>>)])>>)

\* const metadata = { prompt, plan, review, createdAt }
MetadataJson(project) ==
  ObjectValue(<<"prompt", "plan", "review", "createdAt">>,
              <<StringValue(project.prompt), PlanJson(project.plan),
                ReviewJson(project.review), NumberValue(project.createdAt)>>)

JSONstringify(value) == Stringify(value, 0)

\* JSON.parse: a recursive-descent reading of the text. A result is
\* Failed or Parsed(value, position after the value), positions 0-based.
Failed == [ok |-> FALSE]

Parsed(value, pos) == [ok |-> TRUE, value |-> value, pos |-> pos]

CharAtPos(text, pos) == IF pos < Len(text) THEN Substring(text, pos, pos + 1) ELSE ""

IsDigit(c) == \E d \in 1..Len(Digits) : CharAt(Digits, d) = c

RECURSIVE SkipWhitespace(_, _)
SkipWhitespace(text, pos) ==
  IF CharAtPos(text, pos) \in {" ", "\n"} THEN SkipWhitespace(text, pos + 1) ELSE pos

\* The characters after an opening quote, up to the closing one.
RECURSIVE ParseString(_, _, _)
ParseString(text, pos, acc) ==
  LET c == CharAtPos(text, pos)
      e == CharAtPos(text, pos + 1)
  IN  IF c = "" \/ c = "\n" THEN Failed
      ELSE IF c = "\"" THEN Parsed(StringValue(acc), pos + 1)
      ELSE IF c = "\\"
        THEN IF e = "\"" THEN ParseString(text, pos + 2, acc \o "\"")
             ELSE IF e = "\\" THEN ParseString(text, pos + 2, acc \o "\\")
             ELSE IF e = "n" THEN ParseString(text, pos + 2, acc \o "\n")
             ELSE Failed
      ELSE ParseString(text, pos + 1, acc \o c)

RECURSIVE ParseNumber(_, _, _)
ParseNumber(text, pos, acc) ==
  IF IsDigit(CharAtPos(text, pos))
  THEN ParseNumber(text, pos + 1, 10 * acc + (CharIndex(Digits, CharAtPos(text, pos)) - 1))
  ELSE Parsed(NumberValue(acc), pos)

RECURSIVE ParseValue(_, _)
RECURSIVE ParseItems(_, _, _)
RECURSIVE ParseMembers(_, _, _, _)
ParseValue(text, pos) ==
  LET start == SkipWhitespace(text, pos)
      c == CharAtPos(text, start)
      inner == SkipWhitespace(text, start + 1)
  IN  IF c = "\"" THEN ParseString(text, start + 1, "")
      ELSE IF IsDigit(c) THEN ParseNumber(text, start, 0)
      ELSE IF c = "["
        THEN IF CharAtPos(text, inner) = "]" THEN Parsed(ArrayValue(<< >>), inner + 1)
             ELSE ParseItems(text, start + 1, << >>)
      ELSE IF c = "{"
        THEN IF CharAtPos(text, inner) = "}" THEN Parsed(ObjectValue(<< >>, << >>), inner + 1)
             ELSE ParseMembers(text, start + 1, << >>, << >>)
      ELSE Failed

\* The items of an array after `[` or `,`
ParseItems(text, pos, items) ==
  LET item == ParseValue(text, pos) IN
  IF ~item.ok THEN Failed
  ELSE LET next == SkipWhitespace(text, item.pos)
           c == CharAtPos(text, next)
       IN  IF c = "," THEN ParseItems(text, next + 1, Append(items, item.value))
           ELSE IF c = "]" THEN Parsed(ArrayValue(Append(items, item.value)), next + 1)
           ELSE Failed

\* The members of an object after `{` or `,`
ParseMembers(text, pos, keys, values) ==
  LET start == SkipWhitespace(text, pos) IN
  IF CharAtPos(text, start) # "\"" THEN Failed
  ELSE LET key == ParseString(text, start + 1, "") IN
  IF ~key.ok THEN Failed
  ELSE LET colon == SkipWhitespace(text, key.pos) IN
  IF CharAtPos(text, colon) # ":" THEN Failed
  ELSE LET member == ParseValue(text, colon + 1) IN
  IF ~member.ok THEN Failed
  ELSE LET next == SkipWhitespace(text, member.pos)
           c == CharAtPos(text, next)
       IN  IF c = ","
           THEN ParseMembers(text, next + 1, Append(keys, key.value.value),
                             Append(values, member.value))
           ELSE IF c = "}"
           THEN Parsed(ObjectValue(Append(keys, key.value.value),
                                   Append(values, member.value)), next + 1)
           ELSE Failed

\* JSON.parse(text); Undefined stands for the SyntaxError it throws.
JSONparse(text) ==
  LET result == ParseValue(text, 0) IN
  IF result.ok /\ SkipWhitespace(text, result.pos) = Len(text) THEN result.value
  ELSE Undefined

\* The value JSON.parse returns for a parsed text: an object as a record, an
\* array as a sequence; of a key written twice the last value is kept.
RECURSIVE JsValue(_)
JsValue(json) ==
  IF json.type = "object"
  THEN [key \in {json.keys[i] : i \in 1..Len(json.keys)} |->
          JsValue(json.values[SetMax({i \in 1..Len(json.keys) : json.keys[i] = key})])]
  ELSE IF json.type = "array" THEN [i \in 1..Len(json.items) |-> JsValue(json.items[i])]
  ELSE json.value

\* The metadata object; its `review: any` keeps the tag of a string or a
\* number.
MetadataValue(json) ==
  [key \in {json.keys[i] : i \in 1..Len(json.keys)} |->
     LET member == json.values[SetMax({i \in 1..Len(json.keys) : json.keys[i] = key})]
     IN  IF key = "review" /\ member.type \in {"string", "number"} THEN member
         ELSE JsValue(member)]

\* this.files[name] = entry: an entry of that name keeps its place
AddEntry(zip, entry) ==
  IF \E i \in 1..Len(zip) : zip[i].path = entry.path
  THEN [i \in 1..Len(zip) |-> IF zip[i].path = entry.path THEN entry ELSE zip[i]]
  ELSE Append(zip, entry)

\* The folders of a path, outermost first, from position `from`.
RECURSIVE AddFolders(_, _, _)
AddFolders(zip, path, from) ==
  LET slash == IndexOf(path, "/", from) IN
  IF slash = -1 THEN zip
  ELSE AddFolders(IF \E i \in 1..Len(zip) : zip[i].path = Substring(path, 0, slash + 1)
                  THEN zip ELSE Append(zip, Dir(Substring(path, 0, slash + 1))),
                  path, slash + 1)

\* zip.file(path, content): the entry, after the folders it lies in
ZipFile(zip, path, content) == AddEntry(AddFolders(zip, path, 0), File(path, content))

RECURSIVE ZipFiles(_, _, _)
ZipFiles(zip, files, paths) ==
  IF paths = << >> THEN zip
  ELSE ZipFiles(ZipFile(zip, Head(paths), files[Head(paths)]), files, Tail(paths))

\* The orders in which `for (const path in project.files)` can visit the
\* keys of a files map.
KeyOrders(files) ==
  {order \in [1..Cardinality(DOMAIN files) -> DOMAIN files] :
     \A i, j \in 1..Cardinality(DOMAIN files) : order[i] = order[j] => i = j}

\* The archive createAndDownloadZip generates, its entries in the order of
\* zip.files; `paths` is the order of the for-in loop.
createAndDownloadZip(project, paths) ==
  ZipFiles(ZipFile(<< >>, "project.json", JSONstringify(MetadataJson(project))),
           project.files, paths)

\* The outcome of an import that throws.
ImportThrows == [failed |-> TRUE]

\* Lines 459-504: the project the metadata branch of handleImportProject
\* appends to the collection, at Date.now() = time.
ImportedProject(zip, time) ==
  LET projectJsonPath == ShallowestPath(ProjectJsonPaths(zip))
      json == JSONparse(EntryContent(zip, projectJsonPath))
      importedFiles == MetaFiles(zip, projectJsonPath)
  IN  IF json = Undefined THEN ImportThrows
      ELSE LET metadata == MetadataValue(json) IN
           IF NoSourceFiles(importedFiles, metadata) THEN ImportThrows
           ELSE [key \in DOMAIN metadata \cup {"review", "files", "id", "createdAt"} |->
                   IF key = "review"
                   THEN ensureStructuredReview(IF "review" \in DOMAIN metadata
                                               THEN metadata.review ELSE Undefined)
                   ELSE IF key = "files" THEN importedFiles
                   ELSE IF key \in {"id", "createdAt"} THEN time
                   ELSE metadata[key]]

ExportPaths == {"a", "src/m", "src/project.json", "project.json"}

ExportContents == {"v1", ""}

ExportFiles ==
  UNION {[paths -> ExportContents] :
           paths \in {S \in SUBSET ExportPaths : Cardinality(S) <= MaxExportFiles}}

ExportProjects ==
  {[id |-> 1, prompt |-> prompt, plan |-> PlanA, files |-> files, review |-> review,
    createdAt |-> 1] :
     prompt \in {"app a", "say \"hi\"\n"}, files \in ExportFiles,
     review \in {ReviewA, emptyReview, ReviewWrongShape}}

ExportInit ==
  /\ AppUnused
  /\ ParseUnused
  /\ RecUnused
  /\ TreeUnused
  /\ ReviewUnused
  /\ xProject \in ExportProjects
  /\ xZip = << >>
  /\ xImported = NoProject

\* createAndDownloadZip(activeProject)
Export ==
  /\ xZip = << >>
  /\ \E paths \in KeyOrders(xProject.files) : xZip' = createAndDownloadZip(xProject, paths)
  /\ UNCHANGED <<xProject, xImported>>
  /\ UNCHANGED appVars
  /\ UNCHANGED parseVars
  /\ UNCHANGED recVars
  /\ UNCHANGED treeVars
  /\ UNCHANGED reviewVars

\* handleImportProject on the downloaded archive
ImportExported ==
  /\ xZip # << >>
  /\ xImported = NoProject
  /\ xImported' = ImportedProject(xZip, xProject.createdAt + 1)
  /\ UNCHANGED <<xProject, xZip>>
  /\ UNCHANGED appVars
  /\ UNCHANGED parseVars
  /\ UNCHANGED recVars
  /\ UNCHANGED treeVars
  /\ UNCHANGED reviewVars

ExportNext == Export \/ ImportExported

SpecExport == ExportInit /\ [][ExportNext]_vars

\* A project with a well-formed review, at least one file, and no file at
\* project.json or under __MACOSX/.
Exportable(project) ==
  /\ IsStructured(project.review)
  /\ DOMAIN project.files # {}
  /\ \A path \in DOMAIN project.files :
       path # "project.json" /\ ~StartsWith(path, "__MACOSX/")

\* C29: importing the archive createAndDownloadZip wrote for such a project
\* commits a project with the fields of a project, whose prompt, plan,
\* review and files map equal those of the exported project.
ExportImportRoundTrip ==
  (xImported # NoProject /\ Exportable(xProject)) =>
    /\ DOMAIN xImported = DOMAIN xProject
    /\ xImported.prompt = xProject.prompt
    /\ xImported.plan = xProject.plan
    /\ xImported.review = xProject.review
    /\ xImported.files = xProject.files

ExportImportRoundTripWitness ==
  /\ xImported # NoProject
  /\ Exportable(xProject)
  /\ xProject.prompt = "say \"hi\"\n"
  /\ xProject.review = ReviewA
  /\ DOMAIN xProject.files = {"src/m", "src/project.json"}
  /\ xImported.files = xProject.files

====
